---- MODULE Spec2Model ----
(***************************************************************************)
(* Model of the austk node: the publication protocol of                    *)
(* internal/lightningnode.go (NewLightningNode, Sign, ValidatePublication) *)
(* and the run of cmd/austk/austk.go (main, storeMp3File, startServer,     *)
(* setArtistPubkey, playTracks).                                           *)
(*                                                                         *)
(* Go pointers are sets of at most one element: Nil is the nil pointer,    *)
(* Ptr(x) points to x.  Go errors are strings, NoErr is the nil error.     *)
(***************************************************************************)
EXTENDS Integers, Sequences, FiniteSets, TLC

VARIABLES
    pc,               \* position of the process in main, "exited" once it ended
    exit,             \* how the process ended: "" (running), "return", "fatal"
    runs,             \* number of runs of austk started so far
    cfg,              \* the Config of the current run
    lnd,              \* the lnd node behind cfg.LndHost: its identity pubkey
    localStorage,     \* the Content Store (durable across runs)
    publishingArtist, \* LightningNode.publishingArtist
    server,           \* austkServer: "stopped", "started"
    peers,            \* the peers the sync loop of main has still to visit
    trace,            \* the calls the current run made, in order
    publication,      \* the last publication handed to or produced by the protocol
    validated         \* the result of the last ValidatePublication

vars == <<pc, exit, runs, cfg, lnd, localStorage, publishingArtist, server, peers,
          trace, publication, validated>>

----------------------------------------------------------------------------
(* Bounds of the model. *)

\* Number of runs of the austk process in one behaviour.
MaxRuns == 2
\* Longest list of nested messages in one repeated field of a snapshot handed
\* to Sign by the protocol's callers.
MaxEntities == 1
\* Longest serialized_art_resources of a publication received from a peer.
MaxWireLen == 3

----------------------------------------------------------------------------
(* Values. *)

Nil == {}
Ptr(x) == {x}
Deref(p) == CHOOSE x \in p : TRUE

NoErr == "nil"
ErrArtNotFound == "ErrArtNotFound"

\* Identity pubkeys of lnd nodes; "" is the unset pubkey of art.Artist.
Pubkeys == {"0a", "0b", "0c"}
ArtistIds == {"alice", "bob"}

SeqsUpTo(S, n) == UNION {[1..k -> S] : k \in 0..n}

----------------------------------------------------------------------------
(* pkg/art/art.proto: the wire encoding of ArtResources.                   *)
(* A byte is a natural number.  ArtResources has four repeated message     *)
(* fields; each nested message (Artist, Album, Track, Peer) is carried as  *)
(* its own marshaled bytes, a sequence of bytes.  A repeated message field *)
(* is written as one length-delimited record per element: the tag byte     *)
(* (field number * 8 + wire type 2), the length, the element's bytes.      *)

FieldArtists == 1
FieldAlbums == 2
FieldTracks == 3
FieldPeers == 4

EmptyResources == [artists |-> <<>>, albums |-> <<>>, tracks |-> <<>>, peers |-> <<>>]

\* A tag byte: the field number, then the wire type (2: length-delimited).
Tag(field) == field * 8 + 2

RECURSIVE MarshalRepeated(_, _)
MarshalRepeated(field, list) ==
    IF list = <<>> THEN <<>>
    ELSE <<Tag(field), Len(Head(list))>> \o Head(list)
            \o MarshalRepeated(field, Tail(list))

\* proto.Marshal(resources): the fields in field-number order.
Marshal(resources) ==
    MarshalRepeated(FieldArtists, resources.artists)
        \o MarshalRepeated(FieldAlbums, resources.albums)
        \o MarshalRepeated(FieldTracks, resources.tracks)
        \o MarshalRepeated(FieldPeers, resources.peers)

AppendField(res, field, payload) ==
    CASE field = FieldArtists -> [res EXCEPT !.artists = Append(@, payload)]
      [] field = FieldAlbums -> [res EXCEPT !.albums = Append(@, payload)]
      [] field = FieldTracks -> [res EXCEPT !.tracks = Append(@, payload)]
      [] field = FieldPeers -> [res EXCEPT !.peers = Append(@, payload)]
      [] OTHER -> res  \* an unknown field is skipped

KnownField(field) == field \in {FieldArtists, FieldAlbums, FieldTracks, FieldPeers}

\* proto.Unmarshal(bytes, &artResources): reads tagged records until the
\* input ends; fails on field number 0, on a wire type a field cannot have and
\* on a record that runs past the end of the input.
RECURSIVE UnmarshalFrom(_, _)
UnmarshalFrom(b, res) ==
    IF b = <<>> THEN [artResources |-> res, err |-> NoErr]
    ELSE LET field == Head(b) \div 8
             wire == Head(b) % 8
         IN  IF field = 0 THEN [artResources |-> res, err |-> "proto: illegal tag 0"]
             ELSE IF wire = 0 /\ ~KnownField(field)  \* a varint of an unknown field
             THEN IF Len(b) < 2 THEN [artResources |-> res, err |-> "unexpected EOF"]
                  ELSE UnmarshalFrom(SubSeq(b, 3, Len(b)), res)
             ELSE IF wire # 2
             THEN [artResources |-> res, err |-> "proto: bad wiretype"]
             ELSE IF Len(b) < 2 \/ Len(b) < 2 + b[2]
             THEN [artResources |-> res, err |-> "unexpected EOF"]
             ELSE UnmarshalFrom(SubSeq(b, 3 + b[2], Len(b)),
                                AppendField(res, field, SubSeq(b, 3, 2 + b[2])))

Unmarshal(b) == UnmarshalFrom(b, EmptyResources)

----------------------------------------------------------------------------
(* The lnd node behind lnrpc.LightningClient (the Signing Oracle).         *)
(* A signature names the key that made it and the exact bytes it was made  *)
(* over; VerifyMessage recovers the signer and reports the signature valid *)
(* only over those bytes.  Every rpc may fail (ok = FALSE).                *)

SignMessage(identity, msg) == [key |-> identity, msg |-> msg]

VerifyMessage(msg, signature) ==
    IF signature.msg = msg
    THEN [Valid |-> TRUE, Pubkey |-> signature.key]
    ELSE [Valid |-> FALSE, Pubkey |-> ""]

\* pubkey(lightningClient): GetInfo().IdentityPubkey.
pubkey(identity, ok) ==
    IF ok THEN [pubkey |-> identity, err |-> NoErr]
    ELSE [pubkey |-> "", err |-> "rpc error"]

----------------------------------------------------------------------------
(* internal/lightningnode.go: Sign and ValidatePublication.               *)
(* Each returns its Go results and calls, the rpc and decoding calls it    *)
(* made, in order.                                                         *)

\* Sign with a signature made over other bytes than the envelope carries.
SignOverOtherBytes(artist, identity, resources, ok) ==
    LET marshaledResources == Marshal(resources)
    IN  IF ~ok
        THEN [publication |-> Nil, err |-> "rpc error", calls |-> <<"SignMessage">>]
        ELSE [publication |->
                 Ptr([Artist |-> artist,
                      Signature |-> SignMessage(identity, Marshal(EmptyResources)),
                      SerializedArtResources |-> marshaledResources]),
              err |-> NoErr, calls |-> <<"SignMessage">>]

\* LightningNode.Sign(resources) on a node whose publishingArtist is artist
\* (a pointer) and whose lnd has the given identity.
Sign(artist, identity, resources, ok) ==
    LET marshaledResources == Marshal(resources)
    IN  IF ~ok
        THEN [publication |-> Nil, err |-> "rpc error", calls |-> <<"SignMessage">>]
        ELSE [publication |->
                 Ptr([Artist |-> artist,
                      Signature |-> SignMessage(identity, marshaledResources),
                      SerializedArtResources |-> marshaledResources]),
              err |-> NoErr, calls |-> <<"SignMessage">>]

\* ValidatePublication without the comparison of line 148.
ValidatePublicationWithoutIdentityCheck(pub, ok) ==
    LET verifyMessageResponse == VerifyMessage(pub.SerializedArtResources, pub.Signature)
        unmarshaled == Unmarshal(pub.SerializedArtResources)
    IN  IF ~ok
        THEN [artResources |-> Nil, err |-> "rpc error", panic |-> FALSE,
              calls |-> <<"VerifyMessage">>]
        ELSE IF ~verifyMessageResponse.Valid
        THEN [artResources |-> Nil, err |-> "Signature failed verification",
              panic |-> FALSE, calls |-> <<"VerifyMessage">>]
        ELSE IF unmarshaled.err # NoErr
        THEN [artResources |-> Nil, err |-> unmarshaled.err, panic |-> FALSE,
              calls |-> <<"VerifyMessage", "Unmarshal">>]
        ELSE [artResources |-> Ptr(unmarshaled.artResources), err |-> NoErr,
              panic |-> FALSE, calls |-> <<"VerifyMessage", "Unmarshal">>]

\* ValidatePublication without the test of Valid of line 144.
ValidatePublicationIgnoringValid(pub, ok) ==
    LET verifyMessageResponse == VerifyMessage(pub.SerializedArtResources, pub.Signature)
        unmarshaled == Unmarshal(pub.SerializedArtResources)
    IN  IF ~ok
        THEN [artResources |-> Nil, err |-> "rpc error", panic |-> FALSE,
              calls |-> <<"VerifyMessage">>]
        ELSE IF pub.Artist = Nil
        THEN [artResources |-> Nil, err |-> NoErr, panic |-> TRUE,
              calls |-> <<"VerifyMessage">>]
        ELSE IF verifyMessageResponse.Pubkey # Deref(pub.Artist).Pubkey
        THEN [artResources |-> Nil, err |-> NoErr, panic |-> FALSE,
              calls |-> <<"VerifyMessage">>]
        ELSE IF unmarshaled.err # NoErr
        THEN [artResources |-> Nil, err |-> unmarshaled.err, panic |-> FALSE,
              calls |-> <<"VerifyMessage", "Unmarshal">>]
        ELSE [artResources |-> Ptr(unmarshaled.artResources), err |-> NoErr,
              panic |-> FALSE, calls |-> <<"VerifyMessage", "Unmarshal">>]

\* LightningNode.ValidatePublication(publication).  panic: the nil
\* dereference of publication.Artist.Pubkey on an envelope without artist.
ValidatePublication(pub, ok) ==
    LET verifyMessageResponse == VerifyMessage(pub.SerializedArtResources, pub.Signature)
        unmarshaled == Unmarshal(pub.SerializedArtResources)
    IN  IF ~ok
        THEN [artResources |-> Nil, err |-> "rpc error", panic |-> FALSE,
              calls |-> <<"VerifyMessage">>]
        ELSE IF ~verifyMessageResponse.Valid
        THEN [artResources |-> Nil, err |-> "Signature failed verification",
              panic |-> FALSE, calls |-> <<"VerifyMessage">>]
        ELSE IF pub.Artist = Nil
        THEN [artResources |-> Nil, err |-> NoErr, panic |-> TRUE,
              calls |-> <<"VerifyMessage">>]
        ELSE IF verifyMessageResponse.Pubkey # Deref(pub.Artist).Pubkey
        THEN \* line 151 returns err, the nil error of the VerifyMessage call
             [artResources |-> Nil, err |-> NoErr, panic |-> FALSE,
              calls |-> <<"VerifyMessage">>]
        ELSE IF unmarshaled.err # NoErr
        THEN [artResources |-> Nil, err |-> unmarshaled.err, panic |-> FALSE,
              calls |-> <<"VerifyMessage", "Unmarshal">>]
        ELSE [artResources |-> Ptr(unmarshaled.artResources), err |-> NoErr,
              panic |-> FALSE, calls |-> <<"VerifyMessage", "Unmarshal">>]

----------------------------------------------------------------------------
(* The Content Store (the ArtServer handed to main's functions) and the    *)
(* values kept in it.                                                      *)

Hosts == {"self.onion", "two.onion", "three.onion"}
Port == 53545

EmptyStore ==
    [artists |-> [a \in ArtistIds |-> Nil],  \* by artist_id: a pointer to the Artist
     albums |-> {},
     tracks |-> {},
     payloads |-> {},       \* the tracks whose mp3 bytes are stored
     peers |-> <<>>,        \* at most one Peer per pubkey, oldest first
     publications |-> {}]

\* One call of the run: the function called, what it was called on, whether
\* it succeeded.
Call(op, arg, ok) == [op |-> op, arg |-> arg, ok |-> ok]

StoreArtist(store, artist) ==
    [store EXCEPT !.artists[artist.ArtistId] = Ptr(artist)]

StorePeer(store, peer) ==
    IF \E i \in DOMAIN store.peers : store.peers[i].Pubkey = peer.Pubkey
    THEN [store EXCEPT !.peers =
             [i \in DOMAIN store.peers |->
                 IF store.peers[i].Pubkey = peer.Pubkey THEN peer ELSE store.peers[i]]]
    ELSE [store EXCEPT !.peers = Append(@, peer)]

\* The bytes of the strings of the model: a string is written as its index.
Strings ==
    <<"", "alice", "bob", "Alice", "Bob", "0a", "0b", "0c", "dirt", "Dirt",
      "would", "Would?", "solo", "Solo", "self.onion", "two.onion", "three.onion">>
Code(str) == CHOOSE i \in DOMAIN Strings : Strings[i] = str

ArtistBytes(a) == <<Code(a.ArtistId), Code(a.Name), Code(a.Pubkey)>>
AlbumBytes(al) == <<Code(al.ArtistId), Code(al.ArtistAlbumId), Code(al.Title)>>
TrackBytes(t) ==
    <<Code(t.ArtistId), Code(t.ArtistAlbumId)>>
        \o [i \in DOMAIN t.ArtistTrackId |-> Code(t.ArtistTrackId[i])]
        \o <<Code(t.Title)>>
PeerBytes(p) == <<Code(p.Pubkey), Code(p.Host), p.Port>>

RECURSIVE LexLess(_, _)
LexLess(a, b) ==
    IF a = <<>> THEN b # <<>>
    ELSE IF b = <<>> THEN FALSE
    ELSE IF Head(a) # Head(b) THEN Head(a) < Head(b)
    ELSE LexLess(Tail(a), Tail(b))

RECURSIVE Sorted(_)
Sorted(S) ==
    IF S = {} THEN <<>>
    ELSE LET least == CHOOSE x \in S : \A y \in S \ {x} : LexLess(x, y)
         IN  <<least>> \o Sorted(S \ {least})

\* CollectResources(localStorage): every stored artist, album, track and
\* peer, each list in the order of its keys.
CollectResources(store) ==
    [artists |-> Sorted({ArtistBytes(Deref(store.artists[a])) :
                            a \in {x \in ArtistIds : store.artists[x] # Nil}}),
     albums |-> Sorted({AlbumBytes(al) : al \in store.albums}),
     tracks |-> Sorted({TrackBytes(t) : t \in store.tracks}),
     peers |-> Sorted({PeerBytes(store.peers[i]) : i \in DOMAIN store.peers})]

----------------------------------------------------------------------------
(* The Config of a run and the mp3 files it can name.                      *)

\* The identity pubkey of the lnd node the runs connect to.
LndIdentities == {"0a"}

\* A decimal number too large for this checker's integers is written as
\* the pair of its quotient and remainder by 2^16.
Decimal(n) == [hi |-> n \div 65536, lo |-> n % 65536]
TwoToThe32 == [hi |-> 65536, lo |-> 0]

\* cfg.PeerAddress, read as pubkey@host:port; Nil when not configured.
PeerAddresses ==
    {Nil,
     Ptr([pubkey |-> "0a", host |-> "self.onion", port |-> Decimal(Port)]),
     Ptr([pubkey |-> "0b", host |-> "two.onion", port |-> Decimal(Port)]),
     Ptr([pubkey |-> "0c", host |-> "three.onion", port |-> Decimal(Port)]),
     Ptr([pubkey |-> "0C", host |-> "three.onion", port |-> Decimal(Port)]),
     Ptr([pubkey |-> "0c", host |-> "three.onion", port |-> TwoToThe32])}

\* peerAddressRegexp: the pubkey is [0-9a-f]+, the host [a-z0-9.]+, the
\* port [0-9]+.
peerAddressRegexp(address) ==
    IF address.pubkey \in Pubkeys /\ address.host \in Hosts
    THEN Ptr(<<address.pubkey, address.host, address.port>>)
    ELSE Nil

\* strconv.ParseUint(peerPortString, 10, 32)
ParseUint(port) ==
    IF port.hi < 65536 THEN [value |-> port.hi * 65536 + port.lo, err |-> NoErr]
    ELSE [value |-> 0, err |-> "value out of range"]

Mp3Files ==
    {[filename |-> "would.mp3", ArtistName |-> "Alice", Title |-> "Would?",
      AlbumTitle |-> "Dirt", isInAlbum |-> TRUE],
     [filename |-> "solo.mp3", ArtistName |-> "Bob", Title |-> "Solo",
      AlbumTitle |-> "", isInAlbum |-> FALSE]}

Filenames == {f.filename : f \in Mp3Files}
OpenMp3ToRead(filename) == CHOOSE f \in Mp3Files : f.filename = filename

\* NameToID and TitleToHierarchy: the lower-case id of a name, without
\* spaces or punctuation.
NameToID(name) ==
    CASE name = "Alice" -> "alice"
      [] name = "Bob" -> "bob"
      [] name = "Would?" -> "would"
      [] name = "Dirt" -> "dirt"
      [] name = "Solo" -> "solo"
      [] OTHER -> ""

TitleToHierarchy(title) == NameToID(title)

\* The -name of the configured artist.
ArtistNameOf(id) == IF id = "alice" THEN "Alice" ELSE IF id = "bob" THEN "Bob" ELSE ""

\* The values of -pubkey: not set, the identity of the lnd node, another.
ConfigPubkeys == {"", "0a", "0b"}

NoConfig ==
    [ArtistID |-> "", ArtistName |-> "", Pubkey |-> "", AddMp3Filename |-> "",
     PlayMp3 |-> FALSE, RunAsDaemon |-> FALSE, PeerAddress |-> Nil,
     RestHost |-> ""]

----------------------------------------------------------------------------
(* internal/lightningnode.go: NewLightningNode.                           *)
(* fail names the call that fails in this execution ("none": no call       *)
(* fails).  fatal: the function ended the process with log.Fatalf.         *)

NewLightningNodeFails ==
    {"none", "tlsCertPath", "macaroonFromFile", "Dial", "Artist", "pubkey", "StoreArtist"}

\* NewLightningNode without the comparison of cfg.Pubkey with the pubkey of
\* lnd of line 76.
NewLightningNodeIgnoringConfiguredPubkey(c, store, identity, fail) ==
    LET found == store.artists[c.ArtistID]
        got == pubkey(identity, fail # "pubkey")
        artist == [ArtistId |-> c.ArtistID, Name |-> c.ArtistName, Pubkey |-> got.pubkey]
        Failed(err, fatal, calls) ==
            [publishingArtist |-> Nil, err |-> err, fatal |-> fatal, Pubkey |-> c.Pubkey,
             store |-> store, calls |-> calls]
    IN  IF fail = "tlsCertPath" THEN Failed("tls error", TRUE, <<>>)
        ELSE IF fail \in {"macaroonFromFile", "Dial"} THEN Failed(fail, FALSE, <<>>)
        ELSE IF c.ArtistID = "" THEN Failed(ErrArtNotFound, TRUE, <<>>)
        ELSE IF fail = "Artist"
        THEN Failed(ErrArtNotFound, TRUE, <<Call("Artist", c.ArtistID, FALSE)>>)
        ELSE IF found # Nil
        THEN [publishingArtist |-> found, err |-> NoErr, fatal |-> FALSE,
              Pubkey |-> c.Pubkey, store |-> store,
              calls |-> <<Call("Artist", c.ArtistID, TRUE)>>]
        ELSE IF got.err # NoErr
        THEN Failed(got.err, TRUE,
                    <<Call("Artist", c.ArtistID, TRUE), Call("Pubkey", "", FALSE)>>)
        ELSE IF fail = "StoreArtist"
        THEN [publishingArtist |-> Nil, err |-> "storage error", fatal |-> TRUE,
              Pubkey |-> c.Pubkey, store |-> store,
              calls |-> <<Call("Artist", c.ArtistID, TRUE), Call("Pubkey", "", TRUE),
                          Call("StoreArtist", c.ArtistID, FALSE)>>]
        ELSE [publishingArtist |-> Ptr(artist), err |-> NoErr, fatal |-> FALSE,
              Pubkey |-> c.Pubkey, store |-> StoreArtist(store, artist),
              calls |-> <<Call("Artist", c.ArtistID, TRUE), Call("Pubkey", "", TRUE),
                          Call("StoreArtist", c.ArtistID, TRUE)>>]

NewLightningNode(c, store, identity, fail) ==
    LET found == store.artists[c.ArtistID]
        got == pubkey(identity, fail # "pubkey")
        artist == [ArtistId |-> c.ArtistID, Name |-> c.ArtistName, Pubkey |-> got.pubkey]
        Failed(err, fatal, calls) ==
            [publishingArtist |-> Nil, err |-> err, fatal |-> fatal, Pubkey |-> c.Pubkey,
             store |-> store, calls |-> calls]
    IN  IF fail = "tlsCertPath" THEN Failed("tls error", TRUE, <<>>)
        ELSE IF fail \in {"macaroonFromFile", "Dial"} THEN Failed(fail, FALSE, <<>>)
        ELSE IF c.ArtistID = "" THEN Failed(ErrArtNotFound, TRUE, <<>>)
        ELSE IF fail = "Artist"
        THEN Failed(ErrArtNotFound, TRUE, <<Call("Artist", c.ArtistID, FALSE)>>)
        ELSE IF found # Nil
        THEN [publishingArtist |-> found, err |-> NoErr, fatal |-> FALSE,
              Pubkey |-> c.Pubkey, store |-> store,
              calls |-> <<Call("Artist", c.ArtistID, TRUE)>>]
        ELSE IF got.err # NoErr
        THEN Failed(got.err, TRUE,
                    <<Call("Artist", c.ArtistID, TRUE), Call("Pubkey", "", FALSE)>>)
        ELSE IF c.Pubkey # "" /\ c.Pubkey # got.pubkey
        THEN Failed("misconfigured pubkey", TRUE,
                    <<Call("Artist", c.ArtistID, TRUE), Call("Pubkey", "", TRUE)>>)
        ELSE IF fail = "StoreArtist"
        THEN [publishingArtist |-> Nil, err |-> "storage error", fatal |-> TRUE,
              Pubkey |-> got.pubkey, store |-> store,
              calls |-> <<Call("Artist", c.ArtistID, TRUE), Call("Pubkey", "", TRUE),
                          Call("StoreArtist", c.ArtistID, FALSE)>>]
        ELSE [publishingArtist |-> Ptr(artist), err |-> NoErr, fatal |-> FALSE,
              Pubkey |-> got.pubkey, store |-> StoreArtist(store, artist),
              calls |-> <<Call("Artist", c.ArtistID, TRUE), Call("Pubkey", "", TRUE),
                          Call("StoreArtist", c.ArtistID, TRUE)>>]

----------------------------------------------------------------------------
(* cmd/austk/austk.go: setArtistPubkey, storeMp3File, startServer.        *)

\* setArtistPubkey(cfg, austkServer, localStorage, artist): artist is the
\* Artist the pointer refers to; the result's artist is that Artist after
\* the call.
setArtistPubkey(store, artist, identity, fail) ==
    LET got == pubkey(identity, fail # "Pubkey")
        set == [artist EXCEPT !.Pubkey = got.pubkey]
    IN  IF got.err # NoErr
        THEN [store |-> store, artist |-> artist, err |-> got.err, fatal |-> TRUE,
              calls |-> <<Call("Pubkey", "", FALSE)>>]
        ELSE IF fail = "StoreArtist"
        THEN [store |-> store, artist |-> set, err |-> "storage error", fatal |-> TRUE,
              calls |-> <<Call("Pubkey", "", TRUE),
                          Call("StoreArtist", artist.ArtistId, FALSE)>>]
        ELSE [store |-> StoreArtist(store, set), artist |-> set, err |-> NoErr,
              fatal |-> FALSE,
              calls |-> <<Call("Pubkey", "", TRUE),
                          Call("StoreArtist", artist.ArtistId, TRUE)>>]

SameAlbum(a, b) == a.ArtistId = b.ArtistId /\ a.ArtistAlbumId = b.ArtistAlbumId
SameTrack(a, b) ==
    /\ a.ArtistId = b.ArtistId
    /\ a.ArtistAlbumId = b.ArtistAlbumId
    /\ a.ArtistTrackId = b.ArtistTrackId

StoreAlbum(store, album) ==
    [store EXCEPT !.albums = {a \in @ : ~SameAlbum(a, album)} \cup {album}]
StoreTrack(store, track) ==
    [store EXCEPT !.tracks = {t \in @ : ~SameTrack(t, track)} \cup {track}]
StoreTrackPayload(store, track) ==
    [store EXCEPT !.payloads = {t \in @ : ~SameTrack(t, track)} \cup {track}]
StorePublication(store, pub) ==
    [store EXCEPT !.publications = @ \cup {pub}]

StoreMp3FileFails ==
    {"none", "OpenMp3ToRead", "Artist", "Pubkey", "StoreArtist", "StoreAlbum",
     "StoreTrack", "ReadBytes", "StoreTrackPayload", "CollectResources", "Sign",
     "StorePublication"}

\* storeMp3Publication signing before the snapshot of the store is built.
storeMp3PublicationSigningFirst(store, signer, identity, fail, calls) ==
    LET signed == Sign(signer, identity, EmptyResources, fail # "Sign")
        signCalls == calls \o <<Call("Sign", "", signed.err = NoErr)>>
        collected == signCalls \o <<Call("CollectResources", "", TRUE)>>
    IN  IF signed.err # NoErr
        THEN [store |-> store, err |-> signed.err, fatal |-> FALSE, calls |-> signCalls]
        ELSE IF fail = "CollectResources"
        THEN [store |-> store, err |-> "storage error", fatal |-> FALSE,
              calls |-> signCalls \o <<Call("CollectResources", "", FALSE)>>]
        ELSE IF fail = "StorePublication"
        THEN [store |-> store, err |-> "storage error", fatal |-> FALSE,
              calls |-> collected \o <<Call("StorePublication", "", FALSE)>>]
        ELSE [store |-> StorePublication(store, Deref(signed.publication)),
              err |-> NoErr, fatal |-> FALSE,
              calls |-> collected \o <<Call("StorePublication", "", TRUE)>>]

\* storeMp3File, lines 279-297: the snapshot of the store is built, signed
\* by the LightningNode whose publishingArtist is signer, and the publication
\* stored.  calls: the calls storeMp3File made before.
storeMp3Publication(store, signer, identity, fail, calls) ==
    LET resources == CollectResources(store)
        collected == calls \o <<Call("CollectResources", "", TRUE)>>
        signed == Sign(signer, identity, resources, fail # "Sign")
        signCalls == collected \o <<Call("Sign", "", signed.err = NoErr)>>
    IN  IF fail = "CollectResources"
        THEN [store |-> store, err |-> "storage error", fatal |-> FALSE,
              calls |-> calls \o <<Call("CollectResources", "", FALSE)>>]
        ELSE IF signed.err # NoErr
        THEN [store |-> store, err |-> signed.err, fatal |-> FALSE, calls |-> signCalls]
        ELSE IF fail = "StorePublication"
        THEN [store |-> store, err |-> "storage error", fatal |-> FALSE,
              calls |-> signCalls \o <<Call("StorePublication", "", FALSE)>>]
        ELSE [store |-> StorePublication(store, Deref(signed.publication)),
              err |-> NoErr, fatal |-> FALSE,
              calls |-> signCalls \o <<Call("StorePublication", "", TRUE)>>]

\* storeMp3Track with the track's id taken from the title as it is written,
\* not from its lower-case id.
storeMp3TrackKeyedByTitle(mp3, artistID, store, signer, identity, fail, calls) ==
    LET artistAlbumID == IF mp3.isInAlbum THEN TitleToHierarchy(mp3.AlbumTitle) ELSE ""
        artistTrackID == IF mp3.isInAlbum THEN <<artistAlbumID, mp3.Title>>
                         ELSE <<mp3.Title>>
        album == [ArtistId |-> artistID, ArtistAlbumId |-> artistAlbumID,
                  Title |-> mp3.AlbumTitle]
        storeB == IF mp3.isInAlbum /\ fail # "StoreAlbum" THEN StoreAlbum(store, album)
                  ELSE store
        callsB == calls \o
                  (IF mp3.isInAlbum
                   THEN <<Call("StoreAlbum", artistAlbumID, fail # "StoreAlbum")>>
                   ELSE <<>>)
        track == [ArtistId |-> artistID, ArtistTrackId |-> artistTrackID,
                  Title |-> mp3.Title, ArtistAlbumId |-> artistAlbumID]
        storeC == StoreTrack(storeB, track)
        callsC == callsB \o <<Call("StoreTrack", mp3.Title, TRUE)>>
        storeD == StoreTrackPayload(storeC, track)
        callsD == callsC \o <<Call("ReadBytes", mp3.filename, TRUE),
                              Call("StoreTrackPayload", mp3.Title, TRUE)>>
        Return(st, err, calls2) ==
            [store |-> st, err |-> err, fatal |-> FALSE, calls |-> calls2]
    IN  IF fail = "StoreTrack"
        THEN Return(storeB, "storage error",
                    callsB \o <<Call("StoreTrack", mp3.Title, FALSE)>>)
        ELSE IF fail = "ReadBytes"
        THEN Return(storeC, "read error",
                    callsC \o <<Call("ReadBytes", mp3.filename, FALSE)>>)
        ELSE IF fail = "StoreTrackPayload"
        THEN Return(storeC, "storage error",
                    callsC \o <<Call("ReadBytes", mp3.filename, TRUE),
                                Call("StoreTrackPayload", mp3.Title, FALSE)>>)
        ELSE storeMp3Publication(storeD, signer, identity, fail, callsD)

\* storeMp3File, lines 232-277: the ids of the album and the track, the
\* album, the track and its payload; then the publication.
storeMp3Track(mp3, artistID, store, signer, identity, fail, calls) ==
    LET trackTitleID == NameToID(mp3.Title)
        artistAlbumID == IF mp3.isInAlbum THEN TitleToHierarchy(mp3.AlbumTitle) ELSE ""
        \* filepath.Join(artistAlbumID, trackTitleID): a path is the sequence
        \* of its elements
        artistTrackID == IF mp3.isInAlbum THEN <<artistAlbumID, trackTitleID>>
                         ELSE <<trackTitleID>>
        album == [ArtistId |-> artistID, ArtistAlbumId |-> artistAlbumID,
                  Title |-> mp3.AlbumTitle]
        \* line 242: the error of StoreAlbum is overwritten by line 260
        storeB == IF mp3.isInAlbum /\ fail # "StoreAlbum" THEN StoreAlbum(store, album)
                  ELSE store
        callsB == calls \o
                  (IF mp3.isInAlbum
                   THEN <<Call("StoreAlbum", artistAlbumID, fail # "StoreAlbum")>>
                   ELSE <<>>)
        track == [ArtistId |-> artistID, ArtistTrackId |-> artistTrackID,
                  Title |-> mp3.Title, ArtistAlbumId |-> artistAlbumID]
        storeC == StoreTrack(storeB, track)
        callsC == callsB \o <<Call("StoreTrack", trackTitleID, TRUE)>>
        storeD == StoreTrackPayload(storeC, track)
        callsD == callsC \o <<Call("ReadBytes", mp3.filename, TRUE),
                              Call("StoreTrackPayload", trackTitleID, TRUE)>>
        Return(st, err, calls2) ==
            [store |-> st, err |-> err, fatal |-> FALSE, calls |-> calls2]
    IN  IF fail = "StoreTrack"
        THEN Return(storeB, "storage error",
                    callsB \o <<Call("StoreTrack", trackTitleID, FALSE)>>)
        ELSE IF fail = "ReadBytes"
        THEN Return(storeC, "read error",
                    callsC \o <<Call("ReadBytes", mp3.filename, FALSE)>>)
        ELSE IF fail = "StoreTrackPayload"
        THEN Return(storeC, "storage error",
                    callsC \o <<Call("ReadBytes", mp3.filename, TRUE),
                                Call("StoreTrackPayload", trackTitleID, FALSE)>>)
        ELSE storeMp3Publication(storeD, signer, identity, fail, callsD)

\* storeMp3File(cfg, filename, localStorage, austkServer); austkServer signs
\* with the LightningNode whose publishingArtist is signer.  Lines 199-230:
\* the file is opened and its artist stored when not yet known; then the
\* track and the publication.
storeMp3File(c, filename, store, signer, identity, fail) ==
    LET mp3 == OpenMp3ToRead(filename)
        artistName == mp3.ArtistName
        artistID == NameToID(artistName)
        found == store.artists[artistID]
        newArtist == [ArtistId |-> artistID, Name |-> artistName, Pubkey |-> ""]
        set == setArtistPubkey(store, newArtist, identity, fail)
        opened == <<Call("OpenMp3ToRead", filename, TRUE), Call("Artist", artistID, TRUE)>>
        storeA == IF found # Nil THEN store
                  ELSE IF artistID = c.ArtistID THEN set.store
                  ELSE StoreArtist(store, newArtist)
        callsA == opened \o
                  (IF found # Nil THEN <<>>
                   ELSE IF artistID = c.ArtistID THEN set.calls
                   ELSE <<Call("StoreArtist", artistID, TRUE)>>)
        Return(st, err, fatal, calls) ==
            [store |-> st, err |-> err, fatal |-> fatal, calls |-> calls]
    IN  IF fail = "OpenMp3ToRead"
        THEN Return(store, "open error", FALSE, <<Call("OpenMp3ToRead", filename, FALSE)>>)
        ELSE IF fail = "Artist"
        THEN Return(store, "storage error", TRUE,
                    <<Call("OpenMp3ToRead", filename, TRUE), Call("Artist", artistID, FALSE)>>)
        ELSE IF found = Nil /\ artistID = c.ArtistID /\ set.err # NoErr
        THEN Return(set.store, set.err, set.fatal, opened \o set.calls)
        ELSE IF found = Nil /\ artistID # c.ArtistID /\ fail = "StoreArtist"
        THEN Return(store, "storage error", FALSE,
                    opened \o <<Call("StoreArtist", artistID, FALSE)>>)
        ELSE storeMp3Track(mp3, artistID, storeA, signer, identity, fail, callsA)

StartServerFails == {"none", "Artist", "Pubkey", "StoreArtist", "Start"}

\* startServer calling austkServer.Start first, before the artist is read
\* and its pubkey stored.
startServerStartingFirst(c, store, identity, fail) ==
    LET found == store.artists[c.ArtistID]
        set == setArtistPubkey(store, Deref(found), identity, fail)
        began == <<Call("Start", "", TRUE)>>
        looked == began \o <<Call("Artist", c.ArtistID, TRUE)>>
    IN  IF fail = "Start"
        THEN [store |-> store, artist |-> Nil, err |-> "Start error", fatal |-> TRUE,
              started |-> FALSE, calls |-> <<Call("Start", "", FALSE)>>]
        ELSE IF fail = "Artist" \/ c.ArtistID = "" \/ found = Nil
        THEN [store |-> store, artist |-> Nil, err |-> "storage error", fatal |-> TRUE,
              started |-> TRUE, calls |-> began \o <<Call("Artist", c.ArtistID, FALSE)>>]
        ELSE IF set.err # NoErr
        THEN [store |-> set.store, artist |-> Ptr(set.artist), err |-> set.err,
              fatal |-> TRUE, started |-> TRUE, calls |-> looked \o set.calls]
        ELSE [store |-> set.store, artist |-> Ptr(set.artist), err |-> NoErr,
              fatal |-> FALSE, started |-> TRUE, calls |-> looked \o set.calls]

\* startServer(cfg, localStorage, austkServer)
startServer(c, store, identity, fail) ==
    LET found == store.artists[c.ArtistID]
        set == setArtistPubkey(store, Deref(found), identity, fail)
        looked == <<Call("Artist", c.ArtistID, TRUE)>>
    IN  IF fail = "Artist" \/ c.ArtistID = "" \/ found = Nil
        THEN [store |-> store, artist |-> Nil, err |-> "storage error", fatal |-> TRUE,
              started |-> FALSE, calls |-> <<Call("Artist", c.ArtistID, FALSE)>>]
        ELSE IF set.err # NoErr
        THEN [store |-> set.store, artist |-> Ptr(set.artist), err |-> set.err,
              fatal |-> TRUE, started |-> FALSE, calls |-> looked \o set.calls]
        ELSE IF fail = "Start"
        THEN [store |-> set.store, artist |-> Ptr(set.artist), err |-> "Start error",
              fatal |-> TRUE, started |-> FALSE,
              calls |-> looked \o set.calls \o <<Call("Start", "", FALSE)>>]
        ELSE [store |-> set.store, artist |-> Ptr(set.artist), err |-> NoErr,
              fatal |-> FALSE, started |-> TRUE,
              calls |-> looked \o set.calls \o <<Call("Start", "", TRUE)>>]

----------------------------------------------------------------------------
(* cmd/austk/austk.go: main, one action per block of main.                *)

Init ==
    /\ pc = "start"
    /\ exit = ""
    /\ runs = 0
    /\ cfg = NoConfig
    /\ lnd = ""
    /\ localStorage = EmptyStore
    /\ publishingArtist = Nil
    /\ server = "stopped"
    /\ peers = <<>>
    /\ trace = <<>>
    /\ publication = Nil
    /\ validated = Nil

\* log.Fatalf: the process exits at once, no deferred call runs.
Fatalf == pc' = "exited" /\ exit' = "fatal"

\* The end of the loop of a main that does not wait for the quit signal.
EndOfLoopWithoutWaiting == pc' = "exited" /\ exit' = "return"

\* lines 170-174: after the sync loop a daemon waits for the quit signal,
\* any other run returns from main.
EndOfLoop ==
    IF cfg.RunAsDaemon THEN pc' = "WaitUntilQuitSignal" /\ exit' = ""
    ELSE pc' = "exited" /\ exit' = "return"

\* lines 53-65 of a new run of the process: LoadConfig and NewFileServer.
\* cfg holds the flags the run has read so far: a flag is drawn from its
\* values by the block of main that reads it first, and is its zero value
\* until then.
LoadConfig ==
    /\ pc \in {"start", "exited"}
    /\ runs < MaxRuns
    /\ runs' = runs + 1
    /\ publishingArtist' = Nil
    /\ server' = "stopped"
    /\ peers' = <<>>
    /\ UNCHANGED <<localStorage, publication, validated>>
    /\ \E identity \in LndIdentities, outcome \in {"ok", "help", "error", "NewFileServer"} :
          /\ lnd' = identity
          /\ cfg' = IF outcome \in {"ok", "NewFileServer"}
                    THEN [NoConfig EXCEPT !.RestHost = "self.onion"]
                    ELSE NoConfig
          /\ CASE outcome = "ok" ->
                    /\ trace' = <<Call("LoadConfig", "", TRUE), Call("NewFileServer", "", TRUE)>>
                    /\ pc' = "NewLightningNode" /\ exit' = ""
               [] outcome = "help" ->
                    /\ trace' = <<Call("LoadConfig", "help", FALSE)>>
                    /\ pc' = "exited" /\ exit' = "return"
               [] outcome = "error" ->
                    /\ trace' = <<Call("LoadConfig", "", FALSE)>>
                    /\ Fatalf
               [] outcome = "NewFileServer" ->
                    /\ trace' = <<Call("LoadConfig", "", TRUE), Call("NewFileServer", "", FALSE)>>
                    /\ Fatalf

\* lines 67-70; reads -artist, -name and -pubkey.
MainNewLightningNode ==
    /\ pc = "NewLightningNode"
    /\ \E fail \in NewLightningNodeFails, id \in ArtistIds \cup {""}, key \in ConfigPubkeys :
          LET c == [cfg EXCEPT !.ArtistID = id, !.ArtistName = ArtistNameOf(id),
                               !.Pubkey = key]
              r == NewLightningNode(c, localStorage, lnd, fail)
          IN  /\ localStorage' = r.store
              /\ cfg' = [c EXCEPT !.Pubkey = r.Pubkey]
              /\ publishingArtist' = r.publishingArtist
              /\ trace' = trace \o r.calls \o <<Call("NewLightningNode", "", r.err = NoErr)>>
              /\ IF r.err # NoErr THEN Fatalf
                 ELSE pc' = "injectPublisher" /\ exit' = ""
    /\ UNCHANGED <<runs, lnd, server, peers, publication, validated>>

\* lines 72-81; reads -add and -daemon (and -play, which line 90 reads).
MainInjectPublisher ==
    /\ pc = "injectPublisher"
    /\ \E ok \in BOOLEAN, add \in Filenames \cup {""}, play \in BOOLEAN, daemon \in BOOLEAN :
          /\ cfg' = [cfg EXCEPT !.AddMp3Filename = add, !.PlayMp3 = play,
                                !.RunAsDaemon = daemon]
          /\ trace' = Append(trace, Call("injectPublisher", "", ok))
          /\ IF ~ok /\ (add # "" \/ daemon) THEN Fatalf
             ELSE /\ pc' = IF add # "" THEN "storeMp3File"
                           ELSE IF daemon THEN "startServer" ELSE "Peers"
                  /\ exit' = ""
    /\ UNCHANGED <<runs, lnd, localStorage, publishingArtist, server, peers,
                   publication, validated>>

\* lines 83-93
MainStoreMp3File ==
    /\ pc = "storeMp3File"
    /\ \E fail \in StoreMp3FileFails :
          LET r == storeMp3File(cfg, cfg.AddMp3Filename, localStorage,
                                publishingArtist, lnd, fail)
          IN  /\ localStorage' = r.store
              /\ IF r.err # NoErr
                 THEN /\ trace' = trace \o r.calls \o <<Call("storeMp3File", "", FALSE)>>
                      /\ Fatalf
                 ELSE /\ trace' = trace \o r.calls \o <<Call("storeMp3File", "", TRUE)>>
                                     \o (IF cfg.PlayMp3
                                         THEN <<Call("PlayAndWait", cfg.AddMp3Filename, TRUE)>>
                                         ELSE <<>>)
                      /\ pc' = IF cfg.RunAsDaemon THEN "startServer" ELSE "Peers"
                      /\ exit' = ""
    /\ UNCHANGED <<runs, cfg, lnd, publishingArtist, server, peers, publication,
                   validated>>

\* lines 95-107.  aliased: localStorage.Artist handed startServer the very
\* Artist the LightningNode holds, so that setArtistPubkey wrote to both.
MainStartServer ==
    /\ pc = "startServer"
    /\ \E fail \in StartServerFails \cup {"austkServer.Pubkey"}, aliased \in BOOLEAN :
          LET r == startServer(cfg, localStorage, lnd, fail)
              got == pubkey(lnd, fail # "austkServer.Pubkey")
          IN  /\ localStorage' = r.store
              /\ publishingArtist' = IF aliased /\ r.artist # Nil THEN r.artist
                                     ELSE publishingArtist
              /\ server' = IF r.started THEN "started" ELSE server
              /\ IF r.err # NoErr
                 THEN /\ trace' = trace \o r.calls \o <<Call("startServer", "", FALSE)>>
                      /\ cfg' = cfg
                      /\ Fatalf
                 ELSE /\ trace' = trace \o r.calls
                                     \o <<Call("startServer", "", TRUE),
                                          Call("defer Stop", "", TRUE),
                                          Call("austkServer.Pubkey", "", got.err = NoErr)>>
                      /\ cfg' = [cfg EXCEPT !.Pubkey = got.pubkey]
                      /\ IF got.err # NoErr THEN Fatalf
                         ELSE pc' = "Peers" /\ exit' = ""
    /\ UNCHANGED <<runs, lnd, peers, publication, validated>>

\* lines 109-132; reads -peer.  The configured peer is parsed and stored,
\* then the stored peers are listed; a failure of Peers is logged and leaves
\* no peer to visit.
MainPeers ==
    /\ pc = "Peers"
    /\ \E address \in PeerAddresses, storeOK \in BOOLEAN, peersOK \in BOOLEAN :
          LET peerAddressGroups == peerAddressRegexp(Deref(address))
              groups == Deref(peerAddressGroups)
              peerPort == ParseUint(groups[3])
              peer == [Pubkey |-> groups[1], Host |-> groups[2], Port |-> peerPort.value]
              Listed(store, calls) ==
                  /\ localStorage' = store
                  /\ peers' = IF peersOK THEN store.peers ELSE <<>>
                  /\ trace' = trace \o calls \o <<Call("Peers", "", peersOK)>>
                  /\ IF peers' = <<>> THEN EndOfLoop ELSE pc' = "sync" /\ exit' = ""
              Failed(call) ==
                  /\ localStorage' = localStorage
                  /\ peers' = peers
                  /\ trace' = Append(trace, call)
                  /\ Fatalf
          IN  /\ cfg' = [cfg EXCEPT !.PeerAddress = address]
              /\ IF address = Nil THEN Listed(localStorage, <<>>)
                 ELSE IF peerAddressGroups = Nil
                 THEN Failed(Call("FindStringSubmatch", "", FALSE))
                 ELSE IF peerPort.err # NoErr THEN Failed(Call("ParseUint", "", FALSE))
                 ELSE IF ~storeOK THEN Failed(Call("StorePeer", peer.Pubkey, FALSE))
                 ELSE Listed(StorePeer(localStorage, peer),
                             <<Call("StorePeer", peer.Pubkey, TRUE)>>)
    /\ UNCHANGED <<runs, lnd, publishingArtist, server, publication, validated>>

\* What a synced peer publishes: one track of its own.
RemoteTrack(peer) ==
    [ArtistId |-> peer.Host, ArtistTrackId |-> <<"solo">>, Title |-> "Solo",
     ArtistAlbumId |-> ""]

SyncFails == {"none", "NewClient", "SyncFromPeer", "DownloadTracks", "playTracks",
              "DownloadTracks and playTracks"}

\* MainSyncPeer without the continue of line 152: after a failed
\* SyncFromPeer the iteration goes on to lines 155-167.
MainSyncPeerWithoutContinue ==
    /\ pc = "sync"
    /\ peers # <<>>
    /\ peers' = Tail(peers)
    /\ \E fail \in SyncFails :
          LET peer == Head(peers)
              synced == StoreTrack(localStorage, RemoteTrack(peer))
              downloadOK == fail \notin {"DownloadTracks", "DownloadTracks and playTracks"}
              playOK == fail \notin {"playTracks", "DownloadTracks and playTracks"}
              Continue == IF peers' = <<>> THEN EndOfLoop ELSE pc' = "sync" /\ exit' = ""
          IN  IF peer.Pubkey = cfg.Pubkey /\ peer.Host = cfg.RestHost
              THEN /\ trace' = Append(trace, Call("skip sync from self", peer.Pubkey, TRUE))
                   /\ localStorage' = localStorage
                   /\ Continue
              ELSE IF fail = "NewClient"
              THEN /\ trace' = Append(trace, Call("NewClient", peer.Pubkey, FALSE))
                   /\ localStorage' = localStorage
                   /\ Fatalf
              ELSE IF fail = "SyncFromPeer"
              THEN /\ trace' = trace \o <<Call("NewClient", peer.Pubkey, TRUE),
                                          Call("SyncFromPeer", peer.Pubkey, FALSE),
                                          Call("CloseConnection", peer.Pubkey, TRUE)>>
                                     \o (IF cfg.PlayMp3
                                         THEN <<Call("DownloadTracks", peer.Pubkey, TRUE),
                                                Call("playTracks", peer.Pubkey, TRUE)>>
                                         ELSE <<>>)
                                     \o <<Call("CloseConnection", peer.Pubkey, TRUE)>>
                   /\ localStorage' = localStorage
                   /\ Continue
              ELSE IF ~cfg.PlayMp3
              THEN /\ trace' = trace \o <<Call("NewClient", peer.Pubkey, TRUE),
                                          Call("SyncFromPeer", peer.Pubkey, TRUE),
                                          Call("CloseConnection", peer.Pubkey, TRUE)>>
                   /\ localStorage' = synced
                   /\ Continue
              ELSE /\ localStorage' = IF downloadOK
                                      THEN StoreTrackPayload(synced, RemoteTrack(peer))
                                      ELSE synced
                   /\ IF playOK
                      THEN /\ trace' = trace \o <<Call("NewClient", peer.Pubkey, TRUE),
                                                  Call("SyncFromPeer", peer.Pubkey, TRUE),
                                                  Call("DownloadTracks", peer.Pubkey, downloadOK),
                                                  Call("playTracks", peer.Pubkey, TRUE),
                                                  Call("CloseConnection", peer.Pubkey, TRUE)>>
                           /\ Continue
                      ELSE /\ trace' = trace \o <<Call("NewClient", peer.Pubkey, TRUE),
                                                  Call("SyncFromPeer", peer.Pubkey, TRUE),
                                                  Call("DownloadTracks", peer.Pubkey, downloadOK),
                                                  Call("playTracks", peer.Pubkey, FALSE)>>
                           /\ Fatalf
    /\ UNCHANGED <<runs, cfg, lnd, publishingArtist, server, publication, validated>>

\* lines 133-168: one iteration of the loop over peers, for the first peer
\* not yet visited.
MainSyncPeer ==
    /\ pc = "sync"
    /\ peers # <<>>
    /\ peers' = Tail(peers)
    /\ \E fail \in SyncFails :
          LET peer == Head(peers)
              synced == StoreTrack(localStorage, RemoteTrack(peer))
              downloadOK == fail \notin {"DownloadTracks", "DownloadTracks and playTracks"}
              playOK == fail \notin {"playTracks", "DownloadTracks and playTracks"}
              Continue == IF peers' = <<>> THEN EndOfLoop ELSE pc' = "sync" /\ exit' = ""
          IN  IF peer.Pubkey = cfg.Pubkey /\ peer.Host = cfg.RestHost
              THEN /\ trace' = Append(trace, Call("skip sync from self", peer.Pubkey, TRUE))
                   /\ localStorage' = localStorage
                   /\ Continue
              ELSE IF fail = "NewClient"
              THEN /\ trace' = Append(trace, Call("NewClient", peer.Pubkey, FALSE))
                   /\ localStorage' = localStorage
                   /\ Fatalf
              ELSE IF fail = "SyncFromPeer"
              THEN /\ trace' = trace \o <<Call("NewClient", peer.Pubkey, TRUE),
                                          Call("SyncFromPeer", peer.Pubkey, FALSE),
                                          Call("CloseConnection", peer.Pubkey, TRUE)>>
                   /\ localStorage' = localStorage
                   /\ Continue
              ELSE IF ~cfg.PlayMp3
              THEN /\ trace' = trace \o <<Call("NewClient", peer.Pubkey, TRUE),
                                          Call("SyncFromPeer", peer.Pubkey, TRUE),
                                          Call("CloseConnection", peer.Pubkey, TRUE)>>
                   /\ localStorage' = synced
                   /\ Continue
              ELSE /\ localStorage' = IF downloadOK
                                      THEN StoreTrackPayload(synced, RemoteTrack(peer))
                                      ELSE synced
                   /\ IF playOK
                      THEN /\ trace' = trace \o <<Call("NewClient", peer.Pubkey, TRUE),
                                                  Call("SyncFromPeer", peer.Pubkey, TRUE),
                                                  Call("DownloadTracks", peer.Pubkey, downloadOK),
                                                  Call("playTracks", peer.Pubkey, TRUE),
                                                  Call("CloseConnection", peer.Pubkey, TRUE)>>
                           /\ Continue
                      ELSE /\ trace' = trace \o <<Call("NewClient", peer.Pubkey, TRUE),
                                                  Call("SyncFromPeer", peer.Pubkey, TRUE),
                                                  Call("DownloadTracks", peer.Pubkey, downloadOK),
                                                  Call("playTracks", peer.Pubkey, FALSE)>>
                           /\ Fatalf
    /\ UNCHANGED <<runs, cfg, lnd, publishingArtist, server, publication, validated>>

\* lines 170-174: the quit signal ends WaitUntilQuitSignal, main returns and
\* the deferred austkServer.Stop runs.
QuitSignal ==
    /\ pc = "WaitUntilQuitSignal"
    /\ trace' = trace \o <<Call("WaitUntilQuitSignal", "", TRUE), Call("Stop", "", TRUE)>>
    /\ server' = "stopped"
    /\ pc' = "exited" /\ exit' = "return"
    /\ UNCHANGED <<runs, cfg, lnd, localStorage, publishingArtist, peers, publication,
                   validated>>

Next ==
    \/ LoadConfig
    \/ MainNewLightningNode
    \/ MainInjectPublisher
    \/ MainStoreMp3File
    \/ MainStartServer
    \/ MainPeers
    \/ MainSyncPeer
    \/ QuitSignal

Spec == Init /\ [][Next]_vars

----------------------------------------------------------------------------
(* The publication protocol on its own: a LightningNode made by            *)
(* NewLightningNode, whose Sign and ValidatePublication are called by the  *)
(* Sync Service and the Sync Client with any snapshot and any publication. *)

\* The stores a run can start from: the configured artist not stored, stored
\* by an earlier run's NewLightningNode with the lnd identity, or stored by
\* an earlier run's storeMp3File (line 224) without pubkey.
StoredArtists(id) ==
    {Nil} \cup {Ptr([ArtistId |-> id, Name |-> ArtistNameOf(id), Pubkey |-> key]) :
                  key \in {""} \cup LndIdentities}

ProtocolInit ==
    /\ pc = "protocol"
    /\ exit = ""
    /\ runs = 0
    /\ cfg = NoConfig
    /\ lnd \in LndIdentities
    /\ \E stored \in StoredArtists("alice") :
          localStorage = [EmptyStore EXCEPT !.artists["alice"] = stored]
    /\ publishingArtist = Nil
    /\ server = "stopped"
    /\ peers = <<>>
    /\ trace = <<>>
    /\ publication = Nil
    /\ validated = Nil

\* The marshaled nested messages of the snapshots handed to Sign.
PayloadSamples == {<<1>>, <<2, 3>>}
ResourceSamples ==
    [artists : SeqsUpTo(PayloadSamples, MaxEntities),
     albums : SeqsUpTo(PayloadSamples, MaxEntities),
     tracks : SeqsUpTo(PayloadSamples, MaxEntities),
     peers : SeqsUpTo(PayloadSamples, MaxEntities)]

\* The bytes a peer can send: a length or payload byte (0, 1), the tag of
\* field 1 (10: artists), a varint tag of an unknown field (40).
WireSamples == SeqsUpTo({0, 1, 10, 40}, MaxWireLen)

\* The publications a peer can send: any artist pubkey or no artist, any
\* bytes, and a signature by any key over these bytes or over other bytes.
ReceivedPublications ==
    {[Artist |-> artist,
      Signature |-> SignMessage(key, IF own THEN bytes ELSE Append(bytes, 0)),
      SerializedArtResources |-> bytes] :
        artist \in {Nil} \cup {Ptr([ArtistId |-> "alice", Name |-> "Alice", Pubkey |-> k]) :
                                  k \in {"", "0a", "0b"}},
        key \in {"0a", "0b"}, own \in BOOLEAN, bytes \in WireSamples}

ProtocolNewLightningNode ==
    /\ pc = "protocol"
    /\ publishingArtist = Nil
    /\ \E fail \in NewLightningNodeFails, key \in ConfigPubkeys :
          LET c == [NoConfig EXCEPT !.ArtistID = "alice", !.ArtistName = "Alice",
                                    !.Pubkey = key]
              r == NewLightningNode(c, localStorage, lnd, fail)
          IN  /\ localStorage' = r.store
              /\ cfg' = [c EXCEPT !.Pubkey = r.Pubkey]
              /\ publishingArtist' = r.publishingArtist
              /\ trace' = r.calls \o <<Call("NewLightningNode", "", r.err = NoErr)>>
    /\ UNCHANGED <<pc, exit, runs, lnd, server, peers, publication, validated>>

\* The Sync Service signs a snapshot.  publication keeps where the
\* publication came from and the snapshot it was signed over.
ProtocolSign ==
    /\ pc = "protocol"
    /\ publishingArtist # Nil
    /\ publication = Nil
    /\ \E resources \in ResourceSamples, ok \in BOOLEAN :
          LET r == Sign(publishingArtist, lnd, resources, ok)
          IN  /\ publication' =
                    IF r.err = NoErr
                    THEN Ptr([pub |-> Deref(r.publication), from |-> "Sign",
                              resources |-> resources])
                    ELSE Nil
              /\ trace' = [i \in DOMAIN r.calls |-> Call(r.calls[i], "", ok)]
                              \o <<Call("Sign", "", r.err = NoErr)>>
    /\ validated' = Nil
    /\ UNCHANGED <<pc, exit, runs, cfg, lnd, localStorage, publishingArtist, server, peers>>

\* A peer sends a publication of its own making.
ProtocolReceive ==
    /\ pc = "protocol"
    /\ publishingArtist # Nil
    /\ publication = Nil
    /\ \E pub \in ReceivedPublications :
          publication' = Ptr([pub |-> pub, from |-> "peer", resources |-> EmptyResources])
    /\ trace' = <<Call("GetArt", "", TRUE)>>
    /\ validated' = Nil
    /\ UNCHANGED <<pc, exit, runs, cfg, lnd, localStorage, publishingArtist, server, peers>>

\* The ways bytes are altered: a byte appended, the last byte dropped, the
\* first byte changed.
Altered(bytes) ==
    {Append(bytes, 0)}
        \cup (IF bytes = <<>> THEN {}
              ELSE {SubSeq(bytes, 1, Len(bytes) - 1),
                    [bytes EXCEPT ![1] = (@ + 8) % 256]})

\* The bytes of a signed publication are altered on the way.
ProtocolTamper ==
    /\ pc = "protocol"
    /\ publication # Nil
    /\ validated = Nil
    /\ Deref(publication).from = "Sign"
    /\ \E bytes \in Altered(Deref(publication).pub.SerializedArtResources) :
          /\ publication' =
                Ptr([Deref(publication) EXCEPT !.pub.SerializedArtResources = bytes,
                                               !.from = "tampered"])
    /\ trace' = <<Call("tamper", "", TRUE)>>
    /\ validated' = Nil
    /\ UNCHANGED <<pc, exit, runs, cfg, lnd, localStorage, publishingArtist, server, peers>>

\* ProtocolValidate with a ValidatePublication that stores the artist of the
\* publication it accepted.
ProtocolValidateMerging ==
    /\ pc = "protocol"
    /\ publishingArtist # Nil
    /\ publication # Nil
    /\ validated = Nil
    /\ \E ok \in BOOLEAN :
          LET r == ValidatePublication(Deref(publication).pub, ok)
          IN  /\ validated' = Ptr([ok |-> ok, result |-> r])
              /\ trace' = [i \in DOMAIN r.calls |-> Call(r.calls[i], "", TRUE)]
              /\ localStorage' =
                    IF r.artResources # Nil
                    THEN StoreArtist(localStorage,
                                     [Deref(Deref(publication).pub.Artist)
                                          EXCEPT !.Name = "merged"])
                    ELSE localStorage
    /\ UNCHANGED <<pc, exit, runs, cfg, lnd, publishingArtist, server, peers, publication>>

\* The Sync Client validates the publication it holds; ok: the VerifyMessage
\* rpc went through.
ProtocolValidate ==
    /\ pc = "protocol"
    /\ publishingArtist # Nil
    /\ publication # Nil
    /\ validated = Nil
    /\ \E ok \in BOOLEAN :
          LET r == ValidatePublication(Deref(publication).pub, ok)
          IN  /\ validated' = Ptr([ok |-> ok, result |-> r])
              /\ trace' = [i \in DOMAIN r.calls |-> Call(r.calls[i], "", TRUE)]
    /\ UNCHANGED <<pc, exit, runs, cfg, lnd, localStorage, publishingArtist, server, peers,
                   publication>>

\* The caller is done with the publication and its result.
ProtocolDone ==
    /\ pc = "protocol"
    /\ validated # Nil
    /\ publication' = Nil
    /\ validated' = Nil
    /\ trace' = <<>>
    /\ UNCHANGED <<pc, exit, runs, cfg, lnd, localStorage, publishingArtist, server, peers>>

ProtocolNext ==
    \/ ProtocolNewLightningNode
    \/ ProtocolSign
    \/ ProtocolReceive
    \/ ProtocolTamper
    \/ ProtocolValidate
    \/ ProtocolDone

ProtocolSpec == ProtocolInit /\ [][ProtocolNext]_vars

----------------------------------------------------------------------------
(* Properties of ValidatePublication and Sign, under ProtocolSpec.         *)

\* The publication the protocol holds and the result of validating it.
Held == Deref(publication)
Outcome == Deref(validated)
Verified == VerifyMessage(Held.pub.SerializedArtResources, Held.pub.Signature)
SignerIsArtist ==
    Held.pub.Artist # Nil /\ Verified.Pubkey = Deref(Held.pub.Artist).Pubkey

\* C1: a publication whose signature the oracle reports valid but whose
\* signer is not publication.artist.pubkey is rejected with a non-nil error
\* and no snapshot.
C1_ImpersonationRejected ==
    (/\ validated # Nil
     /\ Outcome.ok
     /\ Verified.Valid
     /\ Held.pub.Artist # Nil
     /\ Verified.Pubkey # Deref(Held.pub.Artist).Pubkey)
        => (Outcome.result.err # NoErr /\ Outcome.result.artResources = Nil)

\* C2: ValidatePublication returns a snapshot only when the signature was
\* verified, then the signer found equal to the artist's pubkey, then the
\* bytes decoded; it decodes nothing unless the first two checks passed, and
\* only after the VerifyMessage call.
C2_SnapshotOnlyAfterAllChecks ==
    validated # Nil =>
        /\ Outcome.result.artResources # Nil =>
               /\ Outcome.ok /\ Verified.Valid /\ SignerIsArtist
               /\ Unmarshal(Held.pub.SerializedArtResources).err = NoErr
               /\ Outcome.result.artResources =
                      Ptr(Unmarshal(Held.pub.SerializedArtResources).artResources)
               /\ Outcome.result.err = NoErr
        /\ \A i \in DOMAIN Outcome.result.calls :
               Outcome.result.calls[i] = "Unmarshal" =>
                   /\ Outcome.ok /\ Verified.Valid /\ SignerIsArtist
                   /\ i > 1 /\ Outcome.result.calls[1] = "VerifyMessage"

\* A publication received from a peer passed the three checks and came back
\* as a snapshot with an artist in it.
C2_Witness ==
    /\ validated # Nil
    /\ Held.from = "peer"
    /\ Outcome.result.artResources # Nil
    /\ Deref(Outcome.result.artResources).artists # <<>>

\* C3: a publication whose signature the oracle reports not valid, or whose
\* VerifyMessage call fails, is rejected with a non-nil error and no
\* snapshot; bytes altered after signing are such a publication.
C3_ForgeryRejected ==
    validated # Nil =>
        /\ (~Outcome.ok \/ ~Verified.Valid) =>
               (Outcome.result.err # NoErr /\ Outcome.result.artResources = Nil)
        /\ Held.from = "tampered" =>
               (Outcome.result.err # NoErr /\ Outcome.result.artResources = Nil)

\* A signed publication was altered and then rejected by a VerifyMessage
\* call that went through.
C3_Witness ==
    /\ validated # Nil
    /\ Held.from = "tampered"
    /\ Outcome.ok
    /\ Outcome.result.err = "Signature failed verification"

\* C4: validating what Sign returned gives back the signed snapshot, when
\* the oracle is reachable, however NewLightningNode got the publishing
\* artist.
C4_RoundTrip ==
    (validated # Nil /\ Held.from = "Sign" /\ Outcome.ok)
        => /\ Outcome.result.err = NoErr
           /\ Outcome.result.artResources = Ptr(Held.resources)

----------------------------------------------------------------------------
(* Properties of the run of main, under Spec.                              *)

Events == DOMAIN trace
Failed(i, ops) == trace[i].op \in ops /\ ~trace[i].ok
\* The position of the call of op in the run, 0 when it was not called.
Pos(op) ==
    IF \E i \in Events : trace[i].op = op
    THEN CHOOSE i \in Events : trace[i].op = op /\ \A j \in Events : trace[j].op = op => i <= j
    ELSE 0
Succeeded(op) == Pos(op) # 0 /\ trace[Pos(op)].ok

\* C5: a failure of one peer (no client, no sync) never ends the process
\* and leaves no later peer of the list unvisited.
C5_PeerFailureIsolated ==
    \A i \in Events :
        Failed(i, {"NewClient", "SyncFromPeer"}) =>
            /\ ~(exit = "fatal" /\ i = Len(trace))
            /\ pc = "exited" => peers = <<>>

\* C6: no client is made for a stored peer whose pubkey and host are the
\* node's own lnd identity and host.
C6_SelfSyncSkipped ==
    \A i \in Events :
        trace[i].op \in {"NewClient", "SyncFromPeer"} =>
            ~\E j \in DOMAIN localStorage.peers :
                /\ localStorage.peers[j].Pubkey = trace[i].arg
                /\ localStorage.peers[j].Pubkey = lnd
                /\ localStorage.peers[j].Host = cfg.RestHost

\* C7: after a failed write to the Content Store storeMp3File does nothing
\* more: its next event is its return with the error.
StoreWrites ==
    {"StoreArtist", "StoreAlbum", "StoreTrack", "StoreTrackPayload", "StorePublication"}
C7_StorageErrorsReturned ==
    \A i \in Events :
        (Pos("OpenMp3ToRead") # 0 /\ i > Pos("OpenMp3ToRead") /\ Failed(i, StoreWrites)
             /\ (Pos("storeMp3File") = 0 \/ i < Pos("storeMp3File")))
            => /\ i < Len(trace)
               /\ trace[i + 1] = Call("storeMp3File", "", FALSE)

\* C8: when building or signing the publication fails in the add-track
\* step, the process is not ended.
C8_FailedPublishNotFatal ==
    \A i \in Events :
        (Failed(i, {"CollectResources", "Sign"}) /\ i < Len(trace)
             /\ trace[i + 1] = Call("storeMp3File", "", FALSE))
            => exit # "fatal"

\* A run whose storeMp3File has just returned without error.
JustStoredMp3 ==
    /\ Succeeded("storeMp3File")
    /\ \A k \in Events : k > Pos("storeMp3File") => trace[k].op = "PlayAndWait"

Contains(seq, x) == \E i \in DOMAIN seq : seq[i] = x

\* C9: in storeMp3File the track and its payload are stored before the
\* snapshot is built, the snapshot is built before Sign is called, and Sign
\* returns before StorePublication is called; when storeMp3File returns
\* without error the store holds a publication signed over the snapshot of
\* the store as it then is, the new track in it.
C9_PublishOrdering ==
    /\ Pos("CollectResources") # 0 =>
           /\ Succeeded("StoreTrack") /\ Succeeded("StoreTrackPayload")
           /\ Pos("StoreTrack") < Pos("StoreTrackPayload")
           /\ Pos("StoreTrackPayload") < Pos("CollectResources")
    /\ Pos("Sign") # 0 =>
           Succeeded("CollectResources") /\ Pos("CollectResources") < Pos("Sign")
    /\ Pos("StorePublication") # 0 =>
           Succeeded("Sign") /\ Pos("Sign") < Pos("StorePublication")
    /\ JustStoredMp3 =>
           \E pub \in localStorage.publications, t \in localStorage.tracks :
               /\ t.Title = OpenMp3ToRead(cfg.AddMp3Filename).Title
               /\ t.ArtistId = NameToID(OpenMp3ToRead(cfg.AddMp3Filename).ArtistName)
               /\ t \in localStorage.payloads
               /\ pub.SerializedArtResources = Marshal(CollectResources(localStorage))
               /\ VerifyMessage(pub.SerializedArtResources, pub.Signature).Valid
               /\ Contains(Unmarshal(pub.SerializedArtResources).artResources.tracks,
                           TrackBytes(t))

\* A track of an album was added and its publication stored.
C9_Witness ==
    /\ JustStoredMp3
    /\ cfg.AddMp3Filename = "would.mp3"
    /\ Succeeded("StoreAlbum")
    /\ Succeeded("StorePublication")

\* C10: once an artist is stored with a pubkey, no later step of any run
\* writes the artist again.
C10_PubkeyWrittenOnce ==
    [][\A a \in ArtistIds :
          (localStorage.artists[a] # Nil /\ Deref(localStorage.artists[a]).Pubkey # "")
              => ~\E i \in DOMAIN trace' :
                     /\ runs' = runs => i > Len(trace)
                     /\ trace'[i] = Call("StoreArtist", a, TRUE)]_vars

\* The number of calls of op in the trace.
Count(op) == Cardinality({i \in DOMAIN trace : trace[i].op = op})

\* The Sign call that has just returned (ProtocolSpec).
SignReturned == trace # <<>> /\ trace[Len(trace)].op = "Sign"

\* C11: on success Sign returns the bytes that were handed to the oracle,
\* the oracle's signature over these bytes, and the node's publishing
\* artist; when the oracle call fails Sign returns the error and no
\* publication, and has called the oracle once.
C11_SignEnvelope ==
    SignReturned =>
        /\ Count("SignMessage") = 1
        /\ trace[Len(trace)].ok =>
               /\ publication # Nil
               /\ Held.from = "Sign"
               /\ Held.pub.SerializedArtResources = Marshal(Held.resources)
               /\ Held.pub.Signature.msg = Held.pub.SerializedArtResources
               /\ Held.pub.Signature = SignMessage(lnd, Held.pub.SerializedArtResources)
               /\ Held.pub.Artist = publishingArtist
        /\ ~trace[Len(trace)].ok =>
               /\ publication = Nil
               /\ trace[1] = Call("SignMessage", "", FALSE)

\* Sign has returned the publication of a snapshot that is not empty.
C11_Witness ==
    /\ SignReturned
    /\ trace[Len(trace)].ok
    /\ publication # Nil
    /\ Held.resources.tracks # <<>>

\* C12: no call of Sign and no call of ValidatePublication, passing or
\* failing, writes to the Content Store.
C12_ProtocolLeavesStoreUnchanged ==
    [][((trace' # <<>> /\ trace'[Len(trace')].op = "Sign")
            \/ (validated = Nil /\ validated' # Nil))
          => localStorage' = localStorage]_vars

\* A signed publication has been validated and accepted, and the store
\* holds what NewLightningNode left in it: its artist and no publication.
C12_Witness ==
    /\ validated # Nil
    /\ Held.from = "Sign"
    /\ Outcome.result.artResources # Nil
    /\ localStorage.publications = {}
    /\ localStorage.artists["alice"] = publishingArtist

\* The keys storeMp3File is to give the artist, the album and the track of
\* each file, written out: the lower-case ids of the file's texts.
ExpectedTrack(filename) ==
    IF filename = "would.mp3"
    THEN [ArtistId |-> "alice", ArtistAlbumId |-> "dirt",
          ArtistTrackId |-> <<"dirt", "would">>, Title |-> "Would?"]
    ELSE [ArtistId |-> "bob", ArtistAlbumId |-> "",
          ArtistTrackId |-> <<"solo">>, Title |-> "Solo"]
ExpectedAlbums(filename) ==
    IF filename = "would.mp3"
    THEN {[ArtistId |-> "alice", ArtistAlbumId |-> "dirt", Title |-> "Dirt"]}
    ELSE {}

SyncPassFinished == Pos("Peers") # 0 /\ peers = <<>> /\ pc # "sync" /\ exit # "fatal"
QuitSignalled ==
    /\ Len(trace) >= 2
    /\ trace[Len(trace) - 1].op = "WaitUntilQuitSignal"
    /\ trace[Len(trace)].op = "Stop"

\* C14: a daemon whose server has started and whose sync loop has ended
\* waits for the quit signal and exits only when it has come; a run that is
\* not a daemon exits when its sync loop ends and never waits.
C14_DaemonBlocksUntilQuit ==
    /\ pc = "WaitUntilQuitSignal" =>
           cfg.RunAsDaemon /\ server = "started" /\ peers = <<>> /\ exit = ""
    /\ (cfg.RunAsDaemon /\ SyncPassFinished) =>
           /\ Succeeded("startServer")
           /\ pc = "WaitUntilQuitSignal" \/ (pc = "exited" /\ QuitSignalled)
    /\ (cfg.RunAsDaemon /\ Succeeded("startServer") /\ exit = "return") => QuitSignalled
    /\ ~cfg.RunAsDaemon =>
           /\ pc # "WaitUntilQuitSignal"
           /\ Count("WaitUntilQuitSignal") = 0
           /\ SyncPassFinished => (pc = "exited" /\ exit = "return")

\* A daemon that has synced from a peer waits for the quit signal.
C14_Witness ==
    /\ pc = "WaitUntilQuitSignal"
    /\ Succeeded("SyncFromPeer")

\* C15: the publishing artist NewLightningNode gives the node has the
\* pubkey of the lnd node, whether it was created or loaded from the store.
C15_PublishingArtistHasOraclePubkey ==
    (publishingArtist # Nil /\ Succeeded("NewLightningNode"))
        => Deref(publishingArtist).Pubkey = lnd

\* C16: when the configured artist is not in the store, NewLightningNode
\* stores an artist with the configured id and name and the pubkey of the
\* lnd node; with a configured pubkey that is not the lnd node's, startup
\* fails and no artist is stored; a failed read of the artist fails startup
\* and stores nothing.
C16_CreateOnFirstUse ==
    [][pc = "NewLightningNode" =>
          LET id == cfg'.ArtistID
              absent == id \in ArtistIds /\ localStorage.artists[id] = Nil
              created == [ArtistId |-> id, Name |-> cfg'.ArtistName, Pubkey |-> lnd]
          IN  /\ pc' = "exited" => localStorage' = localStorage
              /\ (absent /\ pc' = "injectPublisher") =>
                     /\ localStorage' =
                            [localStorage EXCEPT !.artists[id] = Ptr(created)]
                     /\ publishingArtist' = Ptr(created)
                     /\ cfg'.Pubkey = lnd
              /\ (absent /\ cfg'.Pubkey \notin {"", lnd}) =>
                     (pc' = "exited" /\ localStorage' = localStorage)
              /\ (\E i \in DOMAIN trace' : trace'[i] = Call("Artist", id, FALSE)) =>
                     (pc' = "exited" /\ localStorage' = localStorage)]_vars

\* The configured artist was not in the store and has been stored by
\* NewLightningNode with the pubkey of the lnd node.
C16_Witness ==
    /\ pc = "injectPublisher"
    /\ Len(trace) >= 2
    /\ trace[Len(trace) - 1] = Call("StoreArtist", cfg.ArtistID, TRUE)
    /\ trace[Len(trace)] = Call("NewLightningNode", "", TRUE)
    /\ localStorage.artists[cfg.ArtistID] =
           Ptr([ArtistId |-> cfg.ArtistID, Name |-> cfg.ArtistName, Pubkey |-> lnd])

\* The tracks the store holds that came from peers, and those among them
\* whose payload the store holds.
RemoteTracks == {t \in localStorage.tracks : t.ArtistId \in Hosts}
RemotePayloads == {t \in localStorage.payloads : t.ArtistId \in Hosts}

\* C17: DownloadTracks is called for a peer right after that peer's
\* SyncFromPeer returned without error, and only in a run that plays; after
\* a failed SyncFromPeer the connection is closed and nothing is downloaded
\* or played; a run that does not play downloads nothing.
C17_LazyPayloadDownload ==
    /\ \A i \in Events :
           trace[i].op \in {"DownloadTracks", "playTracks"} =>
               /\ cfg.PlayMp3
               /\ \E j \in Events :
                      /\ j < i /\ i - j <= 2
                      /\ trace[j] = Call("SyncFromPeer", trace[i].arg, TRUE)
    /\ \A i \in Events :
           Failed(i, {"SyncFromPeer"}) =>
               /\ i < Len(trace)
               /\ trace[i + 1] = Call("CloseConnection", trace[i].arg, TRUE)
               /\ i + 1 < Len(trace) =>
                      trace[i + 2].op \notin {"DownloadTracks", "playTracks"}
    /\ ~cfg.PlayMp3 => Count("DownloadTracks") = 0
    /\ runs = 1 => (RemotePayloads # {} => Succeeded("DownloadTracks"))
    /\ RemotePayloads \subseteq RemoteTracks

\* A run that plays has synced from a peer and downloaded its tracks.
C17_Witness ==
    /\ cfg.PlayMp3
    /\ Succeeded("SyncFromPeer")
    /\ Succeeded("DownloadTracks")
    /\ RemotePayloads # {}

\* The connections opened in this run, and for each the events up to the
\* next call of NewClient.
Opened == {i \in Events : trace[i].op = "NewClient" /\ trace[i].ok}
NextClient(i) ==
    IF \E j \in Events : j > i /\ trace[j].op = "NewClient"
    THEN CHOOSE j \in Events :
             /\ j > i /\ trace[j].op = "NewClient"
             /\ \A k \in Events : (k > i /\ trace[k].op = "NewClient") => j <= k
    ELSE Len(trace) + 1
Closes(i) ==
    Cardinality({k \in Events : /\ i < k /\ k < NextClient(i)
                                /\ trace[k] = Call("CloseConnection", trace[i].arg, TRUE)})

C19_StopBeforeEveryExit ==
    (cfg.RunAsDaemon /\ Succeeded("startServer") /\ pc = "exited")
        => \E i \in Events : trace[i].op = "Stop"

SyncCalls == {"NewClient", "SyncFromPeer", "DownloadTracks", "playTracks"}

\* C20: austkServer.Start is called right after the configured artist was
\* read and stored with the pubkey of the lnd node; a daemon visits its
\* peers only after startServer returned without error; when reading the
\* artist, storing the pubkey or Start fails, the server is not started and
\* no peer is synced.
C20_DaemonStartOrdering ==
    /\ \A i \in Events :
           trace[i].op = "Start" =>
               /\ i >= 4
               /\ trace[i - 3] = Call("Artist", cfg.ArtistID, TRUE)
               /\ trace[i - 2] = Call("Pubkey", "", TRUE)
               /\ trace[i - 1] = Call("StoreArtist", cfg.ArtistID, TRUE)
               /\ localStorage.artists[cfg.ArtistID] # Nil
               /\ Deref(localStorage.artists[cfg.ArtistID]).Pubkey = lnd
    /\ server = "started" => Succeeded("Start")
    /\ cfg.RunAsDaemon =>
           \A j \in Events :
               trace[j].op \in SyncCalls \cup {"Peers", "StorePeer"} =>
                   /\ Succeeded("Start") /\ Succeeded("startServer")
                   /\ Pos("Start") < Pos("startServer") /\ Pos("startServer") < j
    /\ (Pos("startServer") # 0 /\ ~Succeeded("startServer")) =>
           /\ pc = "exited" /\ exit = "fatal"
           /\ ~Succeeded("Start")
           /\ \A j \in Events : trace[j].op \notin SyncCalls \cup {"Peers"}

\* A daemon whose server has started is visiting its peers.
C20_Witness ==
    /\ cfg.RunAsDaemon
    /\ pc = "sync"
    /\ Succeeded("Start")
    /\ Pos("Start") < Pos("NewClient")

====
